---- MODULE Spec2Model ----
(***************************************************************************)
(* Model of src/claimapp3.py, the "Agency Claim Table Generator" script:   *)
(* a timecard and a masterlist are uploaded, the try body at lines 116-215 *)
(* turns them into per-month claim tables, per-recruiter summaries and     *)
(* grand totals and offers them as a download; any exception is reported   *)
(* by st.exception (line 218).                                             *)
(*                                                                         *)
(* Text is a sequence of one-character strings, so that strip, lower,      *)
(* title and substring tests are computed and not assumed.  A null cell    *)
(* (pandas NaN) is the value NaN.  Hours are counted in minutes and the    *)
(* rate in half ringgit: the widgets step by 0.5 h, 5 min and 0.5 RM, so   *)
(* every value the script can compute is an integer in these units.        *)
(***************************************************************************)
EXTENDS Integers, Sequences, FiniteSets, TLC

VARIABLES
    pc,                 \* position of the script run
    error,              \* the exception handed to st.exception, or "none"
    att_file, mst_file, \* the two uploads (line 42-43)
    hours_per_day, grace_minutes, counting_rule, day_rate, day_first,
    att_raw,            \* frame read from the timecard (line 117-118)
    mst,                \* frame read from the masterlist (line 120-121)
    att,                \* the name att: whether it is bound, and the frame's rows
    eligible,           \* line 142-143
    months,             \* line 145
    tables_by_month, summaries_by_month,   \* line 147-166
    download            \* sheet names of the offered report (line 210)

vars == <<pc, error, att_file, mst_file, hours_per_day, grace_minutes,
          counting_rule, day_rate, day_first, att_raw, mst, att, eligible,
          months, tables_by_month, summaries_by_month, download>>

(***************************************************************************)
(* Text                                                                    *)
(***************************************************************************)
NaN == <<"<NaN>">>
None == <<"<None>">>

UPPER == <<"A","B","C","D","E","F","G","H","I","J","K","L","M",
           "N","O","P","Q","R","S","T","U","V","W","X","Y","Z">>
LOWER == <<"a","b","c","d","e","f","g","h","i","j","k","l","m",
           "n","o","p","q","r","s","t","u","v","w","x","y","z">>

IsUpper(c) == \E i \in 1..26 : UPPER[i] = c
IsLower(c) == \E i \in 1..26 : LOWER[i] = c
IsAlpha(c) == IsUpper(c) \/ IsLower(c)
lowerc(c) == IF IsUpper(c) THEN LOWER[CHOOSE i \in 1..26 : UPPER[i] = c] ELSE c
upperc(c) == IF IsLower(c) THEN UPPER[CHOOSE i \in 1..26 : LOWER[i] = c] ELSE c

\* str.lower(), str.upper()
lower(s) == [i \in 1..Len(s) |-> lowerc(s[i])]
upper(s) == [i \in 1..Len(s) |-> upperc(s[i])]

\* str.title(): a letter is upper-cased after a non-letter, lower-cased after a letter
title(s) == [i \in 1..Len(s) |->
               IF i = 1 \/ ~IsAlpha(s[i-1]) THEN upperc(s[i]) ELSE lowerc(s[i])]

\* str.strip()
RECURSIVE lstrip(_)
lstrip(s) == IF s # <<>> /\ Head(s) = " " THEN lstrip(Tail(s)) ELSE s
RECURSIVE rstrip(_)
rstrip(s) == IF s # <<>> /\ s[Len(s)] = " " THEN rstrip(SubSeq(s, 1, Len(s)-1)) ELSE s
strip(s) == rstrip(lstrip(s))

\* sub in s
Contains(s, sub) ==
    \E i \in 1..(Len(s) - Len(sub) + 1) : SubSeq(s, i, i + Len(sub) - 1) = sub

\* pd.isna(s), str(s)
isna(s) == s = NaN
str(s) == IF isna(s) THEN <<"n","a","n">> ELSE s

\* str(n) for an integer n >= 0
DIGITS == <<"0","1","2","3","4","5","6","7","8","9">>
RECURSIVE strint(_)
strint(n) == IF n < 10 THEN <<DIGITS[n+1]>>
             ELSE strint(n \div 10) \o <<DIGITS[(n % 10) + 1]>>

(***************************************************************************)
(* Helpers (line 47-111)                                                   *)
(***************************************************************************)
\* line 48-56: the loop over df.columns, counts kept as a function base -> n
RECURSIVE unique_loop(_,_,_)
unique_loop(columns, counts, new_cols) ==
    IF columns = <<>> THEN new_cols
    ELSE LET base == strip(str(Head(columns))) IN
         IF base \notin DOMAIN counts
         THEN unique_loop(Tail(columns), counts @@ (base :> 1),
                          Append(new_cols, base))
         ELSE unique_loop(Tail(columns),
                          [counts EXCEPT ![base] = counts[base] + 1],
                          Append(new_cols,
                                 base \o <<"_">> \o strint(counts[base] + 1)))

EmptyDict == [k \in {} |-> 0]

\* a frame is [columns |-> sequence of names, rows |-> sequence of rows],
\* a row a sequence of cells, one per column
ensure_unique_headers(df) ==
    [df EXCEPT !.columns = unique_loop(df.columns, EmptyDict, <<>>)]

\* line 61-65
_norm_empid(s) ==
    IF isna(s) THEN NaN
    ELSE LET t == SelectSeq(upper(strip(str(s))), LAMBDA c : c # " ") IN
         IF Len(t) >= 2 /\ SubSeq(t, Len(t)-1, Len(t)) = <<".","0">>
         THEN SubSeq(t, 1, Len(t)-2) ELSE t

\* line 68-69
_norm_name(s) == IF isna(s) THEN <<>> ELSE strip(str(s))

\* line 72-75
_norm_recruiter(s) ==
    IF isna(s) \/ strip(str(s)) = <<>> THEN <<"U","n","a","s","s","i","g","n","e","d">>
    ELSE title(strip(str(s)))

\* line 78-82
LeaveKeywords ==
    { <<"u","n","p","a","i","d">>, <<"a","n","n","u","a","l">>,
      <<"a","b","s","e","n","t">>, <<"e","m","e","r","g","e","n","c","y">>,
      <<"m","e","d","i","c","a","l">>, <<"s","i","c","k">>, <<"m","c">>,
      <<"l","e","a","v","e">> }
_is_leave(val) ==
    IF val = None THEN FALSE
    ELSE \E k \in LeaveKeywords : Contains(lower(str(val)), k)

\* line 107: the rows load_masterlist scans
ScanLimit == 50

Min(a, b) == IF a < b THEN a ELSE b

\* line 108-109: row i of the raw grid (0-based) names both keywords
IsHeaderRow(row) ==
    /\ \E j \in 1..Len(row) : Contains(lower(str(row[j])), <<"n","a","m","e">>)
    /\ \E j \in 1..Len(row) : Contains(lower(str(row[j])), <<"j","o","i","n">>)

\* pd.read_excel(file_like, header=i): row i names the columns, the rows after it
\* are the data; an empty sheet gives an empty frame
read_excel(grid, i) ==
    IF Len(grid) <= i THEN [columns |-> <<>>, rows |-> <<>>]
    ELSE [columns |-> grid[i+1], rows |-> SubSeq(grid, i+2, Len(grid))]

\* line 107: range(min(50, len(raw))); ScanRowsWholeSheet scans every row
ScanRowsWholeSheet(raw) == Len(raw)
ScanRows(raw) == Min(ScanLimit, Len(raw))

\* line 107-110: the loop from row i on; the index of the row it returns at, or -1
RECURSIVE scan(_,_)
scan(raw, i) ==
    IF i >= ScanRows(raw) THEN -1
    ELSE IF IsHeaderRow(raw[i+1]) THEN i
    ELSE scan(raw, i + 1)

\* line 105-111
load_masterlist(raw) ==
    LET i == scan(raw, 0) IN
    IF i >= 0 THEN read_excel(raw, i) ELSE read_excel(raw, 0)

(***************************************************************************)
(* Dates                                                                   *)
(***************************************************************************)
NaT == <<0, 0, 0>>

IsDigit(c) == \E i \in 1..10 : DIGITS[i] = c
digit(c) == (CHOOSE i \in 1..10 : DIGITS[i] = c) - 1
RECURSIVE int(_)
int(s) == IF s = <<>> THEN 0 ELSE 10 * int(SubSeq(s, 1, Len(s)-1)) + digit(s[Len(s)])
AllDigits(s) == \A i \in 1..Len(s) : IsDigit(s[i])

IsLeap(y) == (y % 4 = 0 /\ y % 100 # 0) \/ y % 400 = 0
DaysInMonth(y, m) ==
    IF m = 2 THEN (IF IsLeap(y) THEN 29 ELSE 28)
    ELSE IF m \in {4, 6, 9, 11} THEN 30 ELSE 31
ValidDate(y, m, d) == y >= 1 /\ m \in 1..12 /\ d >= 1 /\ d <= DaysInMonth(y, m)

\* pd.to_datetime(cell, errors="coerce", dayfirst=flag) for the two shapes of
\* text the sheets hold, DD/MM/YYYY (MM/DD/YYYY when not day-first) and
\* YYYY-MM-DD; every other text, and a null cell, is coerced to NaT
to_datetime(cell, dayfirst) ==
    IF isna(cell) THEN NaT
    ELSE IF Len(cell) = 10 /\ cell[3] = "/" /\ cell[6] = "/"
            /\ AllDigits(SubSeq(cell, 1, 2)) /\ AllDigits(SubSeq(cell, 4, 5))
            /\ AllDigits(SubSeq(cell, 7, 10))
    THEN LET a == int(SubSeq(cell, 1, 2))
             b == int(SubSeq(cell, 4, 5))
             y == int(SubSeq(cell, 7, 10))
             d == IF dayfirst THEN a ELSE b
             m == IF dayfirst THEN b ELSE a
         IN IF ValidDate(y, m, d) THEN <<y, m, d>> ELSE NaT
    ELSE IF Len(cell) = 10 /\ cell[5] = "-" /\ cell[8] = "-"
            /\ AllDigits(SubSeq(cell, 1, 4)) /\ AllDigits(SubSeq(cell, 6, 7))
            /\ AllDigits(SubSeq(cell, 9, 10))
    THEN LET y == int(SubSeq(cell, 1, 4))
             m == int(SubSeq(cell, 6, 7))
             d == int(SubSeq(cell, 9, 10))
         IN IF ValidDate(y, m, d) THEN <<y, m, d>> ELSE NaT
    ELSE NaT

\* line 100-102
_parse_dates(cell, day_first_flag) == to_datetime(cell, day_first_flag)

\* Series.dt.to_period("M"): the month of a date, NaT for NaT
NaTPeriod == <<0, 0>>
to_period(d) == IF d = NaT THEN NaTPeriod ELSE <<d[1], d[2]>>

\* str(m) of a monthly period, the key of tables_by_month: "2024-01", "NaT"
period_str(m) ==
    IF m = NaTPeriod THEN <<"N","a","T">>
    ELSE strint(m[1]) \o <<"-">> \o (IF m[2] < 10 THEN <<"0">> ELSE <<>>) \o strint(m[2])

(***************************************************************************)
(* Frames, dicts and sums                                                  *)
(***************************************************************************)
Max(a, b) == IF a > b THEN a ELSE b

\* line 39, in minutes
effective_threshold == Max(0, hours_per_day - grace_minutes)

\* dict(zip(keys, values)): a later pair replaces an earlier one with the same key
dictzip(keys, values) ==
    [k \in {keys[i] : i \in 1..Len(keys)} |->
        values[CHOOSE i \in 1..Len(keys) :
                  keys[i] = k /\ \A j \in 1..Len(keys) : keys[j] = k => j <= i]]

\* Series.map(d): the value of a key of d, missing for any other
map(d, key, missing) == IF key \in DOMAIN d THEN d[key] ELSE missing

\* df.iloc[:, j] (0-based j) as a sequence of cells
iloc(df, j) == [i \in 1..Len(df.rows) |-> df.rows[i][j+1]]

RECURSIVE SumWorked(_)
SumWorked(rows) ==
    IF rows = <<>> THEN 0 ELSE Head(rows).Worked_Day + SumWorked(Tail(rows))

RECURSIVE SumTotal(_)
SumTotal(table) ==
    IF table = {} THEN 0
    ELSE LET r == CHOOSE r \in table : TRUE IN
         r.TOTAL_WORKING + SumTotal(table \ {r})

RECURSIVE SumAmount(_)
SumAmount(table) ==
    IF table = {} THEN 0
    ELSE LET r == CHOOSE r \in table : TRUE IN r.Amount + SumAmount(table \ {r})

\* Series.unique(): the distinct values in order of first appearance
RECURSIVE unique_from(_,_)
unique_from(s, seen) ==
    IF s = <<>> THEN seen
    ELSE unique_from(Tail(s),
                     IF \E i \in 1..Len(seen) : seen[i] = Head(s)
                     THEN seen ELSE Append(seen, Head(s)))
unique(s) == unique_from(s, <<>>)

Unassigned == <<"U","n","a","s","s","i","g","n","e","d">>

\* line 142: the rows of att that have a join date; EligibleRowsUnfiltered
\* keeps every row
EligibleRowsUnfiltered(frame) == frame
EligibleRows(frame) == SelectSeq(frame, LAMBDA r : r.JOIN_DATE # NaT)

\* line 150: the eligible rows of month m (a NaT period equals nothing)
MonthRows(m) ==
    SelectSeq(eligible, LAMBDA r : m # NaTPeriod /\ to_period(r.__Date) = m)

\* line 151-153: one row per (name, recruiter) of the month
MonthTable(m) ==
    LET df == MonthRows(m)
        keys == {<<df[i].__Name, df[i].Recruiter>> : i \in 1..Len(df)}
    IN { [__Name |-> k[1], Recruiter |-> k[2],
          TOTAL_WORKING |->
              SumWorked(SelectSeq(df, LAMBDA r : r.__Name = k[1] /\ r.Recruiter = k[2]))]
         : k \in keys }

\* the largest total of a table (0 for an empty one)
MaxTotal(table) ==
    IF table = {} THEN 0
    ELSE (CHOOSE r \in table : \A x \in table : x.TOTAL_WORKING <= r.TOTAL_WORKING).TOTAL_WORKING

\* line 155-157: one row per recruiter of the month's table; SummaryMax is
\* Summary with the groups' largest totals in place of their sums
SummaryMax(base) ==
    { [Recruiter |-> b.Recruiter,
       TOTAL_WORKING |-> MaxTotal({x \in base : x.Recruiter = b.Recruiter}),
       Rate |-> day_rate,
       Amount |-> MaxTotal({x \in base : x.Recruiter = b.Recruiter}) * day_rate]
      : b \in base }
Summary(base) ==
    { [Recruiter |-> b.Recruiter,
       TOTAL_WORKING |-> SumTotal({x \in base : x.Recruiter = b.Recruiter}),
       Rate |-> day_rate,
       Amount |-> SumTotal({x \in base : x.Recruiter = b.Recruiter}) * day_rate]
      : b \in base }

\* line 159-164
Grand(summary) ==
    [Recruiter |-> <<"T","O","T","A","L">>, TOTAL_WORKING |-> SumTotal(summary),
     Rate |-> day_rate, Amount |-> SumAmount(summary)]

(***************************************************************************)
(* The script run (line 115-220)                                           *)
(***************************************************************************)
Raise(e) ==
    /\ pc' = "except"
    /\ error' = e

\* line 115, 219-220
Main ==
    /\ pc = "main"
    /\ pc' = IF att_file.present /\ mst_file.present THEN "try" ELSE "info"
    /\ UNCHANGED <<error, att_file, mst_file, hours_per_day, grace_minutes,
                   counting_rule, day_rate, day_first, att_raw, mst, att,
                   eligible, months, tables_by_month, summaries_by_month,
                   download>>

\* line 117-121: a file pandas cannot read raises
ReadFiles ==
    /\ pc = "try"
    /\ IF ~att_file.readable
       THEN Raise("ValueError") /\ UNCHANGED <<att_raw, mst>>
       ELSE /\ att_raw' = ensure_unique_headers(read_excel(att_file.grid, 0))
            /\ IF ~mst_file.readable
               THEN Raise("ValueError") /\ UNCHANGED mst
               ELSE /\ mst' = ensure_unique_headers(load_masterlist(mst_file.grid))
                    /\ pc' = "build"
                    /\ UNCHANGED error
    /\ UNCHANGED <<att_file, mst_file, hours_per_day, grace_minutes,
                   counting_rule, day_rate, day_first, att, eligible, months,
                   tables_by_month, summaries_by_month, download>>

\* line 124-128: each right-hand side is evaluated before the name att is looked up
BuildAtt ==
    /\ pc = "build"
    /\ IF Len(att_raw.columns) < 1 THEN Raise("IndexError") /\ UNCHANGED att
       ELSE IF ~att.bound THEN Raise("NameError") /\ UNCHANGED att
       ELSE IF Len(att_raw.columns) < 3 THEN Raise("IndexError") /\ UNCHANGED att
       ELSE /\ att' = [bound |-> TRUE, rows |->
                        [i \in 1..Len(att_raw.rows) |->
                           [idx |-> i,
                            __Date |-> _parse_dates(iloc(att_raw, 0)[i], day_first),
                            __Name |-> _norm_name(iloc(att_raw, 1)[i]),
                            __EmpID |-> _norm_empid(iloc(att_raw, 2)[i]),
                            __Hours |-> 480,
                            __LeaveFlagRow |-> FALSE]]]
            /\ pc' = "join"
            /\ UNCHANGED error
    /\ UNCHANGED <<att_file, mst_file, hours_per_day, grace_minutes,
                   counting_rule, day_rate, day_first, att_raw, mst, eligible,
                   months, tables_by_month, summaries_by_month, download>>

\* line 134: the join-date column of the masterlist parsed, month-first
ParsedJoin(frame) ==
    [frame EXCEPT !.rows = [i \in 1..Len(frame.rows) |->
                              [frame.rows[i] EXCEPT ![2] = to_datetime(@, FALSE)]]]

\* line 136
join_by_name(frame) == dictzip(iloc(frame, 0), iloc(frame, 1))

\* line 132, 137: the third column, when there is one and its name is not empty
recr_by_name(frame) ==
    LET mst_recr == IF Len(frame.columns) > 2 THEN frame.columns[3] ELSE None IN
    IF mst_recr # None /\ mst_recr # <<>>
    THEN dictzip(iloc(frame, 0), iloc(frame, 2)) ELSE EmptyDict

\* line 140: Series.map(recr_by_name).fillna("Unassigned")
RecruiterOf(d, name) ==
    IF name \in DOMAIN d /\ ~isna(d[name]) THEN d[name] ELSE Unassigned

\* line 143
Worked_Day(r) == IF r.__Hours >= effective_threshold THEN 1 ELSE 0

\* line 130-145
Join ==
    /\ pc = "join"
    /\ IF Len(mst.columns) < 2
       THEN Raise("IndexError") /\ UNCHANGED <<mst, att, eligible, months>>
       ELSE /\ mst' = ParsedJoin(mst)
            /\ att' = [att EXCEPT !.rows =
                         [i \in 1..Len(att.rows) |->
                            [JOIN_DATE |-> map(join_by_name(mst'), att.rows[i].__Name, NaT),
                             Recruiter |-> RecruiterOf(recr_by_name(mst'), att.rows[i].__Name)]
                            @@ att.rows[i]]]
            /\ eligible' =
                  [i \in 1..Len(EligibleRows(att'.rows)) |->
                     [Worked_Day |-> Worked_Day(EligibleRows(att'.rows)[i])]
                     @@ EligibleRows(att'.rows)[i]]
            /\ months' = unique([i \in 1..Len(eligible') |-> to_period(eligible'[i].__Date)])
            /\ pc' = "loop"
            /\ UNCHANGED error
    /\ UNCHANGED <<att_file, mst_file, hours_per_day, grace_minutes,
                   counting_rule, day_rate, day_first, att_raw,
                   tables_by_month, summaries_by_month, download>>

\* line 147-166: the whole loop over months
Aggregate ==
    /\ pc = "loop"
    /\ tables_by_month' =
          [k \in {period_str(months[i]) : i \in 1..Len(months)} |->
              MonthTable(CHOOSE m \in {months[i] : i \in 1..Len(months)} :
                            period_str(m) = k)]
    /\ summaries_by_month' =
          [k \in DOMAIN tables_by_month' |->
              LET summary == Summary(tables_by_month'[k])
              IN [summary |-> summary, grand |-> Grand(summary)]]
    /\ pc' = "export"
    /\ UNCHANGED <<error, att_file, mst_file, hours_per_day, grace_minutes,
                   counting_rule, day_rate, day_first, att_raw, mst, att,
                   eligible, months, download>>

\* line 169-215: one sheet per month, then the download is offered
Export ==
    /\ pc = "export"
    /\ download' = DOMAIN tables_by_month
    /\ pc' = "done"
    /\ UNCHANGED <<error, att_file, mst_file, hours_per_day, grace_minutes,
                   counting_rule, day_rate, day_first, att_raw, mst, att,
                   eligible, months, tables_by_month, summaries_by_month>>

(***************************************************************************)
(* The helpers applied on their own                                        *)
(***************************************************************************)
\* line 47-58 applied to a frame
UniqueHeaders ==
    /\ pc = "headers"
    /\ att_raw' = ensure_unique_headers(att_raw)
    /\ pc' = "headers_done"
    /\ UNCHANGED <<error, att_file, mst_file, hours_per_day, grace_minutes,
                   counting_rule, day_rate, day_first, mst, att, eligible,
                   months, tables_by_month, summaries_by_month, download>>

\* line 105-111 applied to an uploaded sheet
LoadMasterlist ==
    /\ pc = "masterlist"
    /\ mst' = load_masterlist(mst_file.grid)
    /\ pc' = "masterlist_done"
    /\ UNCHANGED <<error, att_file, mst_file, hours_per_day, grace_minutes,
                   counting_rule, day_rate, day_first, att_raw, att, eligible,
                   months, tables_by_month, summaries_by_month, download>>

(***************************************************************************)
(* Inputs                                                                  *)
(***************************************************************************)
MaxAttRows == 2
MaxMstRows == 2
MaxDup == 30
MaxCols == 3
MaxLead == 51

RECURSIVE SeqsUpTo(_,_)
SeqsUpTo(S, n) ==
    IF n = 0 THEN {<<>>}
    ELSE LET shorter == SeqsUpTo(S, n - 1) IN
         shorter \cup {Append(q, x) : q \in {t \in shorter : Len(t) = n - 1}, x \in S}

Rep(x, n) == [i \in 1..n |-> x]

\* the first n columns of a grid; no columns is the empty sheet
Cut(grid, n) ==
    IF n = 0 THEN <<>> ELSE [i \in 1..Len(grid) |-> SubSeq(grid[i], 1, n)]

Ali == <<"A","l","i">>
AliSp == <<" ","A","l","i"," ">>
Siti == <<"S","i","t","i">>
Zed == <<"Z","e","d">>
Mei == <<"M","e","i">>
E1 == <<"e"," ","1",".","0">>
MC == <<"M","C">>
Blank == <<" "," ">>
Amy == <<"a","m","y"," ","l","e","e">>

AttHeader == <<<<"D","a","t","e">>, <<"N","a","m","e">>, <<"E","m","p"," ","N","o">>, <<"R","e","m","a","r","k">>>>
MstHeader == <<<<"N","a","m","e">>, <<"J","o","i","n","e","d"," ","D","a","t","e">>, <<"R","e","c","r","u","i","t","e","r">>>>
TitleRow == <<<<"M","a","s","t","e","r","l","i","s","t"," ","2","0","2","4">>, NaN, NaN>>

DayBefore == <<"1","4","/","0","1","/","2","0","2","4">>
DayIn == <<"1","0","/","0","2","/","2","0","2","4">>
DayAfter == <<"1","5","/","0","4","/","2","0","2","4">>
DayBad == <<"3","1","/","0","2","/","2","0","2","4">>
JoinDay == <<"2","0","2","4","-","0","1","-","1","5">>
JoinBad == <<"n","/","a">>

AttRowKinds ==
    {<<d, n, E1, NaN>> : d \in {DayIn, DayAfter}, n \in {AliSp, Siti, Zed}}
        \cup {<<DayBad, AliSp, E1, NaN>>, <<DayIn, Ali, E1, MC>>}
MstRowKinds ==
    {<<n, JoinDay, r>> : n \in {Ali, Siti}, r \in {NaN, Blank, Amy}}
        \cup {<<n, JoinBad, Amy>> : n \in {Ali, Siti}}

SampleAtt ==
    <<AttHeader, <<DayBefore, Ali, E1, NaN>>, <<DayIn, AliSp, E1, MC>>,
      <<DayIn, Siti, E1, NaN>>, <<DayAfter, Siti, E1, NaN>>,
      <<DayBad, Ali, E1, NaN>>, <<DayIn, Zed, E1, NaN>>, <<DayIn, NaN, NaN, NaN>>,
      <<DayIn, Mei, E1, NaN>>>>
SampleMst ==
    <<TitleRow, MstHeader, <<Ali, JoinBad, NaN>>, <<Ali, JoinDay, Amy>>,
      <<Siti, JoinDay, NaN>>, <<NaN, JoinDay, Amy>>, <<Mei, JoinDay, Amy>>>>

Timecards ==
    {<<AttHeader>> \o Rep(<<DayIn, Ali, E1, NaN>>, n) \o t :
        n \in {0, MaxDup}, t \in SeqsUpTo(AttRowKinds, MaxAttRows)}
Masterlists == {<<MstHeader>> \o t : t \in SeqsUpTo(MstRowKinds, MaxMstRows)}

\* an upload: absent (None at line 42-43), or present and readable by pandas or not
File(grid) == [present |-> TRUE, readable |-> TRUE, grid |-> grid]
Unreadable == [present |-> TRUE, readable |-> FALSE, grid |-> <<>>]
NoFile == [present |-> FALSE, readable |-> FALSE, grid |-> <<>>]

PerDay == "Per-day >= threshold"
FloorTotal == "Floor(total hours / threshold)"

InitRun ==
    /\ pc = "main"
    /\ error = "none"
    /\ att_raw = [columns |-> <<>>, rows |-> <<>>]
    /\ mst = [columns |-> <<>>, rows |-> <<>>]
    /\ eligible = <<>>
    /\ months = <<>>
    /\ tables_by_month = EmptyDict
    /\ summaries_by_month = EmptyDict
    /\ download = {}
    /\ day_rate = 6
    /\ day_first = TRUE
    /\ counting_rule \in {PerDay, FloorTotal}
    /\ \/ /\ hours_per_day = 480
          /\ grace_minutes = 15
          /\ att_file \in {NoFile, Unreadable} \cup {File(Cut(SampleAtt, n)) : n \in 0..4}
          /\ mst_file \in {NoFile, Unreadable} \cup {File(Cut(SampleMst, n)) : n \in 0..3}
       \/ /\ \E c \in {<<480, 0>>, <<480, 15>>, <<510, 15>>} :
                /\ hours_per_day = c[1]
                /\ grace_minutes = c[2]
          /\ \/ /\ att_file \in {File(g) : g \in Timecards}
                /\ mst_file = File(SampleMst)
             \/ /\ att_file = File(SampleAtt)
                /\ mst_file \in {File(g) : g \in Masterlists}

\* the script as written: nothing binds the name att before line 124 reads it
Init ==
    /\ InitRun
    /\ att = [bound |-> FALSE, rows |-> <<>>]

Next == Main \/ ReadFiles \/ BuildAtt

Spec == Init /\ [][Next]_vars

\* the try body with the name att bound to an empty frame, which the
\* assignments of line 124-128 fill with att_raw's rows
InitBody ==
    /\ InitRun
    /\ att = [bound |-> TRUE, rows |-> <<>>]

NextBody == Main \/ ReadFiles \/ BuildAtt \/ Join \/ Aggregate \/ Export

SpecBody == InitBody /\ [][NextBody]_vars

(***************************************************************************)
(* The helpers on their own inputs                                         *)
(***************************************************************************)
\* everything but pc and the helper's input, as the widgets' defaults leave it
Defaults ==
    /\ error = "none"
    /\ eligible = <<>>
    /\ months = <<>>
    /\ tables_by_month = EmptyDict
    /\ summaries_by_month = EmptyDict
    /\ download = {}
    /\ day_rate = 6
    /\ day_first = TRUE
    /\ counting_rule = PerDay
    /\ hours_per_day = 480
    /\ grace_minutes = 15
    /\ att = [bound |-> FALSE, rows |-> <<>>]

\* ensure_unique_headers: a frame with any sequence of column names
HeaderNames == {<<"a">>, <<" ","a">>, <<"a","_","2">>, <<"b">>}

InitHeaders ==
    /\ Defaults
    /\ pc = "headers"
    /\ mst_file = NoFile
    /\ mst = [columns |-> <<>>, rows |-> <<>>]
    /\ att_file \in {File(<<c>>) : c \in SeqsUpTo(HeaderNames, MaxCols)}
    /\ att_raw = [columns |-> att_file.grid[1], rows |-> <<>>]

SpecHeaders == InitHeaders /\ [][UniqueHeaders]_vars

\* load_masterlist: a sheet of up to MaxLead leading rows, then a header row or none
LeadRows == {TitleRow, <<<<"N","a","m","e"," ","l","i","s","t">>, NaN, NaN>>, <<<<"r","e","j","o","i","n","e","d">>, <<"x">>, NaN>>}
SheetBodies ==
    { <<>>,
      <<MstHeader, <<Ali, JoinDay, Amy>>>>,
      <<<<<<"E","M","P","L","O","Y","E","E"," ","N","A","M","E"," ","/"," ","J","O","I","N">>, NaN, NaN>>, <<Ali, JoinDay, Amy>>>>,
      <<<<Ali, JoinDay, Amy>>, <<Siti, JoinDay, NaN>>>> }
Sheets == {Rep(lead, n) \o body : lead \in LeadRows, n \in 0..MaxLead, body \in SheetBodies}

InitMasterlist ==
    /\ Defaults
    /\ pc = "masterlist"
    /\ att_file = NoFile
    /\ att_raw = [columns |-> <<>>, rows |-> <<>>]
    /\ mst = [columns |-> <<>>, rows |-> <<>>]
    /\ mst_file \in {File(g) : g \in Sheets}

SpecMasterlist == InitMasterlist /\ [][LoadMasterlist]_vars

(***************************************************************************)
(* Properties                                                              *)
(***************************************************************************)
\* the tables of the run exist
Produced == pc \in {"export", "done"}

DateLE(a, b) ==
    \/ a[1] < b[1]
    \/ a[1] = b[1] /\ a[2] < b[2]
    \/ a[1] = b[1] /\ a[2] = b[2] /\ a[3] <= b[3]

\* J + n calendar months: the day of month kept, or the month's last day
AddMonths(J, n) ==
    LET k == (J[2] - 1) + n
        y == J[1] + (k \div 12)
        m == (k % 12) + 1
    IN <<y, m, Min(J[3], DaysInMonth(y, m))>>

PrevDay(d) ==
    IF d[3] > 1 THEN <<d[1], d[2], d[3] - 1>>
    ELSE IF d[2] > 1 THEN <<d[1], d[2] - 1, DaysInMonth(d[1], d[2] - 1)>>
    ELSE <<d[1] - 1, 12, 31>>

WindowEnd(J) == PrevDay(AddMonths(J, 3))
InWindow(J, d) == J # NaT /\ d # NaT /\ DateLE(J, d) /\ DateLE(d, WindowEnd(J))

\* the masterlist's join date of a name: that of the last row with the name
KnownJoin(name) ==
    \E i \in 1..Len(mst.rows) :
        /\ mst.rows[i][1] = name
        /\ \A j \in 1..Len(mst.rows) : mst.rows[j][1] = name => j <= i
        /\ mst.rows[i][2] # NaT

\* eligible row r is added into the table of its month with a flag of 1
Contributes(r) ==
    /\ r.__Date # NaT
    /\ period_str(to_period(r.__Date)) \in DOMAIN tables_by_month
    /\ r.Worked_Day = 1

LeaveIndicator(r) ==
    IF Len(att_raw.columns) >= 4 THEN att_raw.rows[r.idx][4] ELSE None

KnownRows(k) ==
    {i \in 1..Len(att.rows) :
        /\ KnownJoin(att.rows[i].__Name)
        /\ att.rows[i].__Date # NaT
        /\ period_str(to_period(att.rows[i].__Date)) = k}

RecruiterCell(name) ==
    LET i == CHOOSE i \in 1..Len(mst.rows) :
                 /\ mst.rows[i][1] = name
                 /\ \A j \in 1..Len(mst.rows) : mst.rows[j][1] = name => j <= i
    IN IF Len(mst.columns) > 2 THEN mst.rows[i][3] ELSE NaN

Structural ==
    \/ ~att_file.readable
    \/ ~mst_file.readable
    \/ Len(read_excel(att_file.grid, 0).columns) < 3
    \/ Len(load_masterlist(mst_file.grid).columns) < 2

\* C7: a run ends in the reported exception only on a structural error
C7_AbortOnlyOnStructuralError == pc = "except" => Structural

RECURSIVE SumHours(_)
SumHours(rows) == IF rows = <<>> THEN 0 ELSE Head(rows).__Hours + SumHours(Tail(rows))

\* the eligible rows behind claim row b of month m
RowsOf(m, b) ==
    SelectSeq(MonthRows(m), LAMBDA r : r.__Name = b.__Name /\ r.Recruiter = b.Recruiter)

Qualifies(raw, i) == IsHeaderRow(raw[i+1])

\* C9: the header is the first qualifying row among the first min(50, rows)
\* rows, and row 0 when none of them qualifies
C9_HeaderRowWithinFirst50 ==
    pc = "masterlist_done" =>
        LET raw == mst_file.grid
            scanned == {i \in 0..(Len(raw) - 1) : i < 50}
        IN IF \E i \in scanned : Qualifies(raw, i)
           THEN \E i \in scanned :
                   /\ Qualifies(raw, i)
                   /\ \A j \in scanned : j < i => ~Qualifies(raw, j)
                   /\ mst = read_excel(raw, i)
           ELSE mst = read_excel(raw, 0)

\* the only qualifying row is at index 50 or later, and row 0 became the header
C9_Witness ==
    /\ pc = "masterlist_done"
    /\ \E i \in 50..(Len(mst_file.grid) - 1) : Qualifies(mst_file.grid, i)
    /\ \A i \in 0..49 : ~Qualifies(mst_file.grid, i)
    /\ mst.columns = mst_file.grid[1]
    /\ Len(mst.rows) = Len(mst_file.grid) - 1

\* C10: after ensure_unique_headers the column names are pairwise distinct
C10_HeadersDistinct ==
    pc = "headers_done" =>
        \A i, j \in 1..Len(att_raw.columns) :
            i # j => att_raw.columns[i] # att_raw.columns[j]

====
